---- MODULE Spec2Model ----
(***************************************************************************)
(* Model of the RTMP ingest path of streamhead: the frame assembler and    *)
(* pipeline driver of RtmpReadFilter (src/src/rtmp.rs) and the ingest task *)
(* that registers a stream (src/streamhead/src/main.rs), the registry      *)
(* shared by concurrent ingest tasks, and the frame queue that fans a      *)
(* stream out to its consumers.                                            *)
(*                                                                         *)
(* Numbers wider than TLC's integers are kept exactly, as big-endian       *)
(* sequences of 16-bit limbs: a u32 is <<hi, lo>>, a u64 is four limbs.    *)
(***************************************************************************)
EXTENDS Integers, Sequences, FiniteSets, TLC

VARIABLES ipc, streams, log, pc, pending, consumed, expecting, started, err,
          video_stream, video_time, prev_video_time,
          audio_stream, audio_time, prev_audio_time,
          frames, emitted, rtmp_rx, written, offered, writer,
          returned, raised, passed, capture,
          queue_frames, receivers, sessions, repo, viewed

vars == <<ipc, streams, log, pc, pending, consumed, expecting, started, err,
          video_stream, video_time, prev_video_time,
          audio_stream, audio_time, prev_audio_time,
          frames, emitted, rtmp_rx, written, offered, writer,
          returned, raised, passed, capture,
          queue_frames, receivers, sessions, repo, viewed>>

(* ------------------------------ bounds --------------------------------- *)

\* Results the session engine returns over the life of one session.
MaxResults == 4

\* Results one handle_input call returns.
MaxBatch == 2

\* Results of a session that sends only well-formed payloads.
MaxClockResults == 6

\* Frames the backlog of one consumer of the frame queue holds.
QueueBound == 4

\* Frames the producer pushes into the frame queue.
MaxFrames == 10

\* Ingest sessions the listener accepts.
MaxSessions == 3

(* --------------------------- fixed-width integers ---------------------- *)

LimbBase == 2 ^ 16

U32(hi, lo) == <<hi, lo>>

U32Zero == U32(0, 0)

U32Max == U32(LimbBase - 1, LimbBase - 1)

U64Zero == <<0, 0, 0, 0>>

\* RtmpTimestamp - RtmpTimestamp: u32 subtraction that wraps around.
WrappingSub(a, b) ==
    LET lo     == a[2] - b[2]
        borrow == IF lo < 0 THEN 1 ELSE 0
        hi     == a[1] - b[1] - borrow
    IN  <<hi % LimbBase, lo % LimbBase>>

U32Less(a, b) == a[1] < b[1] \/ (a[1] = b[1] /\ a[2] < b[2])

\* time = diff.value as u64: the clock overwritten instead of advanced.
U64AssignU32(t, d) == <<0, 0, d[1], d[2]>>

\* time += diff.value as u64
U64AddU32(t, d) ==
    LET s0 == t[4] + d[2]
        s1 == t[3] + d[1] + (s0 \div LimbBase)
        s2 == t[2] + (s1 \div LimbBase)
        s3 == t[1] + (s2 \div LimbBase)
    IN  <<s3 % LimbBase, s2 % LimbBase, s1 % LimbBase, s0 % LimbBase>>

U64Leq(a, b) ==
    \/ a = b
    \/ \E i \in 1..4 : a[i] < b[i] /\ \A j \in 1..(i - 1) : a[j] = b[j]

\* A small number as a u64.
U64Of(n) == <<0, 0, n \div LimbBase, n % LimbBase>>

(* ------------------------------- options ------------------------------- *)

None == <<>>

Some(x) == <<x>>

Unwrap(o) == o[1]

(* -------------------------------- inputs ------------------------------- *)

RTMP_TIMEBASE == <<1, 1000>>

\* A video message body, by what the FLV and H.264 parsers make of it.
\*   parse_ok:    parse_video_tag succeeds
\*   sets:        "valid" (SPS and PPS present and decodable), "missing"
\*                (no SPS/PPS in the body) or "malformed" (undecodable)
VideoData(ok, ft, pt, sets, body) ==
    [parse_ok |-> ok, frame_type |-> ft, packet_type |-> pt,
     sound_format |-> "-", sets |-> sets, body |-> body]

AudioData(ok, sf, body) ==
    [parse_ok |-> ok, frame_type |-> "-", packet_type |-> "-",
     sound_format |-> sf, sets |-> "-", body |-> body]

NoData == AudioData(FALSE, "-", "-")

VideoPayloads ==
    { VideoData(FALSE, "-", "-", "-", "junk"),
      VideoData(TRUE, "Key", "SequenceHeader", "valid", "avcC"),
      VideoData(TRUE, "Key", "SequenceHeader", "malformed", "avcX"),
      VideoData(TRUE, "Key", "NALU", "valid", "sps+pps+idr"),
      VideoData(TRUE, "Key", "NALU", "missing", "idr"),
      VideoData(TRUE, "Inter", "NALU", "missing", "p"),
      VideoData(TRUE, "Inter", "EndOfSequence", "missing", "") }

AudioPayloads ==
    { AudioData(FALSE, "-", "junk"),
      AudioData(TRUE, "AAC", "aac"),
      AudioData(TRUE, "MP3", "mp3") }

Timestamps == { U32Zero, U32(0, 33), U32Max }

\* ServerSessionResult
Result(kind, data, ts, vw, asr, pkt) ==
    [kind |-> kind, data |-> data, timestamp |-> ts,
     video_width |-> vw, audio_sample_rate |-> asr, pkt |-> pkt]

OutboundResponse(n) == Result("OutboundResponse", NoData, U32Zero, FALSE, FALSE, n)

StreamMetadataChanged(vw, asr) ==
    Result("StreamMetadataChanged", NoData, U32Zero, vw, asr, 0)

VideoDataReceived(d, ts) == Result("VideoDataReceived", d, ts, FALSE, FALSE, 0)

AudioDataReceived(d, ts) == Result("AudioDataReceived", d, ts, FALSE, FALSE, 0)

OtherEvent == Result("OtherEvent", NoData, U32Zero, FALSE, FALSE, 0)

UnhandleableMessageReceived ==
    Result("UnhandleableMessageReceived", NoData, U32Zero, FALSE, FALSE, 0)

AllResults ==
    { OutboundResponse(0), OtherEvent, UnhandleableMessageReceived }
      \cup { StreamMetadataChanged(v, a) : v \in BOOLEAN, a \in BOOLEAN }
      \cup { VideoDataReceived(d, t) : d \in VideoPayloads, t \in Timestamps }
      \cup { AudioDataReceived(d, t) : d \in AudioPayloads, t \in Timestamps }

\* The results of a publisher whose payloads are all well-formed: metadata
\* announcing both substreams or none, one sequence header, then key frames
\* and AAC tags at any timestamps, and the engine's outbound packets.
ClockVideoTimestamps ==
    { U32Zero, U32(0, 33), U32(0, 60), U32(0, 66) }

ClockResults ==
    { OutboundResponse(0),
      StreamMetadataChanged(FALSE, FALSE), StreamMetadataChanged(TRUE, TRUE),
      VideoDataReceived(VideoData(TRUE, "Key", "SequenceHeader", "valid", "avcC"),
                        U32Zero) }
      \cup { VideoDataReceived(VideoData(TRUE, "Key", "NALU", "missing", "idr"), t) :
                 t \in ClockVideoTimestamps }
      \cup { AudioDataReceived(AudioData(TRUE, "AAC", "aac"), t) : t \in Timestamps }

\* The failure of read_filter.read() or of handle_input, in place of a batch.
InputError == Result("InputError", NoData, U32Zero, FALSE, FALSE, 0)

(* ------------------------- codec and descriptors ----------------------- *)

CodecInfo(name, extra) == [name |-> name, extra |-> extra]

Stream(id, codec) == [id |-> id, codec |-> codec, timebase |-> RTMP_TIMEBASE]

Frame(pts, dependency, buffer, stream, received) ==
    [time |-> [pts |-> pts, dts |-> None, timebase |-> RTMP_TIMEBASE],
     dependency |-> dependency, buffer |-> buffer, stream |-> stream,
     received |-> received]

\* What a fallible call gives back: Ok(value), Err(error) or a panic.
Ok(v) == [status |-> "Ok", value |-> v, error |-> "-"]

Err(e) == [status |-> "Err", value |-> None, error |-> e]

Panic(e) == [status |-> "Panic", value |-> None, error |-> e]

parse_video_tag(data) == data.parse_ok

parse_audio_tag(data) == data.parse_ok

\* AvcDecoderConfigurationRecord::read and SeqParameterSet::from_bytes
\* return Err on an undecodable record.
get_codec_from_mp4(packet) ==
    IF packet.sets = "valid"
    THEN Ok(Some(CodecInfo("h264", packet.body)))
    ELSE Err("BadDecoderConfigurationRecord")

\* parameter_sets.sps.unwrap(), parameter_sets.pps.unwrap(), sps.unwrap()
get_video_codec_info(packet) ==
    IF packet.sets = "valid"
    THEN Ok(Some(CodecInfo("h264", packet.body)))
    ELSE Panic("unwrap")

get_codec_from_nalu(packet) == get_video_codec_info(packet)

get_audio_codec_info(tag) ==
    IF tag.sound_format = "AAC"
    THEN Ok(Some(CodecInfo("AAC", tag.body)))
    ELSE Err("UnsupportedCodec")

AudioStreamId == 1

\* id: 1 copied from assign_audio_stream into assign_video_stream.
VideoStreamIdCopied == AudioStreamId

VideoStreamId == 0

\* The descriptor option after assign_audio_stream, or its error.
assign_audio_stream(tag) ==
    LET c == get_audio_codec_info(tag)
    IN  IF c.status = "Ok"
        THEN Ok(Some(Stream(AudioStreamId, Unwrap(c.value))))
        ELSE c

assign_video_stream(packet) ==
    LET c == CASE packet.packet_type = "SequenceHeader" -> get_codec_from_mp4(packet)
               [] packet.packet_type = "NALU" -> get_codec_from_nalu(packet)
               [] OTHER -> Err("UnsupportedAvcPacketType")
    IN  IF c.status = "Ok"
        THEN Ok(Some(Stream(VideoStreamId, Unwrap(c.value))))
        ELSE c

(* ---------------------------- frame assembler -------------------------- *)

\* The instant a result is processed: its position among all results.
Now == consumed - Len(pending) + 1

\* What add_*_frame leaves behind: its result, the substream's descriptor,
\* clock and previous timestamp, and the frame it pushed (if any).
Assembled(result, stream, time, prev, push) ==
    [result |-> result, stream |-> stream, time |-> time, prev |-> prev,
     push |-> push]

FrameDependencyOf(tag) ==
    IF tag.frame_type = "Key" THEN "None" ELSE "Backwards"

\* unwrap_or(RtmpTimestamp::new(0)) without the assignment before it.
PrevOrZero(prev, timestamp) == IF prev = None THEN Some(U32Zero) ELSE prev

\* if prev.is_none() { prev = Some(timestamp) }
PrevOrFirst(prev, timestamp) == IF prev = None THEN Some(timestamp) ELSE prev

\* A descriptor assigned again by every sequence header.
NeedsVideoStreamOrHeader(data) ==
    video_stream = None \/ data.packet_type = "SequenceHeader"

\* if self.video_stream.is_none()
NeedsVideoStream(data) == video_stream = None

\* The tag parsed only after prev has been set.
ParseFailedLate(stream, time, prev, timestamp) ==
    Assembled(Err("FlvParse"), stream, time, PrevOrFirst(prev, timestamp), None)

\* parse_video_tag(&data)? / parse_audio_tag(&data)?: the error returns
\* before anything of the assembler is touched.
ParseFailed(stream, time, prev, timestamp) ==
    Assembled(Err("FlvParse"), stream, time, prev, None)

add_video_frame(data, timestamp) ==
    IF ~parse_video_tag(data)
    THEN ParseFailed(video_stream, video_time, prev_video_time, timestamp)
    ELSE IF NeedsVideoStream(data)
    THEN LET a == assign_video_stream(data)
         IN  Assembled(IF a.status = "Ok" THEN Ok(None) ELSE a,
                       IF a.status = "Ok" THEN a.value ELSE video_stream,
                       video_time, prev_video_time, None)
    ELSE LET prev == PrevOrFirst(prev_video_time, timestamp)
             diff == WrappingSub(timestamp, Unwrap(prev))
             time == U64AddU32(video_time, diff)
             frame == Frame(time, FrameDependencyOf(data), data.body,
                            Unwrap(video_stream), Now)
         IN  Assembled(Ok(None), video_stream, time, Some(timestamp), Some(frame))

add_audio_frame(data, timestamp) ==
    IF ~parse_audio_tag(data)
    THEN ParseFailed(audio_stream, audio_time, prev_audio_time, timestamp)
    ELSE IF audio_stream = None
    THEN LET a == assign_audio_stream(data)
         IN  Assembled(IF a.status = "Ok" THEN Ok(None) ELSE a,
                       IF a.status = "Ok" THEN a.value ELSE audio_stream,
                       audio_time, prev_audio_time, None)
    ELSE LET prev == PrevOrFirst(prev_audio_time, timestamp)
             diff == WrappingSub(timestamp, Unwrap(prev))
             time == U64AddU32(audio_time, diff)
             frame == Frame(time, "None", data.body, Unwrap(audio_stream), Now)
         IN  Assembled(Ok(None), audio_stream, time, Some(timestamp), Some(frame))

(* ------------------------------ the session ---------------------------- *)

App == "live"

RTMP_TX_BUFFER == 50

\* futures::channel::mpsc::channel(n) holds n messages plus one per sender.
ChannelCapacity == RTMP_TX_BUFFER + 1

\* The consumers of one frame queue.
Consumers == {"A", "B"}

\* A frame in the queue, the n-th the producer pushed, and the signal a
\* lagging consumer reads in place of the frames it lost.
QueuedFrame(n, dependency) ==
    [kind |-> "Frame", n |-> n, dependency |-> dependency]

LaggedBy(k) == [kind |-> "LaggedBy", n |-> k, dependency |-> "-"]

\* A consumer cursor: its backlog, the frames dropped from it since its last
\* read, whether it still waits for a key frame, and for the record the
\* frame it began at and what recv() has yielded to it.
\* The dependencies of the frames the producer pushes, repeated in turn: a
\* key frame, then three frames that depend on it.
GopPattern == <<"None", "Backwards", "Backwards", "Backwards">>

DependencyOf(n) == GopPattern[((n - 1) % Len(GopPattern)) + 1]

Detached ==
    [attached |-> FALSE, waiting |-> FALSE, start |-> 0, backlog |-> <<>>,
     lagged |-> 0, delivered |-> <<>>]

\* The app names publishers use and the sessions the listener spawns.
Apps == {"live", "cam"}

Sessions == 1..MaxSessions

Idle == [state |-> "idle", app |-> "-"]

NoLookup == [stream |-> "-", queue |-> None]

Init ==
    /\ ipc = "accepted"
    /\ streams = {}
    /\ log = <<>>
    /\ pc = "unborn"
    /\ pending = <<>>
    /\ consumed = 0
    /\ expecting = None
    /\ started = None
    /\ err = "-"
    /\ video_stream = None
    /\ video_time = U64Zero
    /\ prev_video_time = None
    /\ audio_stream = None
    /\ audio_time = U64Zero
    /\ prev_audio_time = None
    /\ frames = <<>>
    /\ emitted = <<>>
    /\ rtmp_rx = <<>>
    /\ written = <<>>
    /\ offered = 0
    /\ writer = "unborn"
    /\ returned = <<>>
    /\ raised = <<>>
    /\ passed = <<>>
    /\ capture = <<>>
    /\ queue_frames = <<>>
    /\ receivers = [c \in Consumers |-> Detached]
    /\ sessions = [s \in Sessions |-> Idle]
    /\ repo = [a \in Apps |-> None]
    /\ viewed = NoLookup

assembler == <<video_stream, video_time, prev_video_time,
               audio_stream, audio_time, prev_audio_time, frames, emitted>>

channel == <<rtmp_rx, written, writer>>

ingest == <<ipc, streams, log>>

\* What the model remembers of the session's past: the frames read() has
\* returned, the positions of the media events the engine raised and of
\* those handed to the assembler, and the shape of the input so far.
history == <<returned, raised, passed, capture>>

\* One ingest session with its assembler, writer and history.
session ==
    <<ipc, streams, log, pc, pending, consumed, expecting, started, err,
      assembler, channel, offered, history>>

fanout == <<queue_frames, receivers>>

registry == <<sessions, repo, viewed>>

IsMedia(r) == r.kind \in {"VideoDataReceived", "AudioDataReceived"}

\* The positions, among all results, of the media events of batch b read
\* when n results had been returned before.
MediaPositions(b, n) ==
    LET idx == SelectSeq([i \in 1..Len(b) |-> i], LAMBDA i : IsMedia(b[i]))
    IN  [k \in 1..Len(idx) |-> n + idx[k]]

OffShape == <<"X">>

\* The input so far as a capture "metadata, one sequence header, NALUs":
\* <<"M", "S", "K" or "I" per NALU>>, or OffShape once it is anything else.
\* Outbound packets, other events and unhandleable messages do not count.
CaptureStep(c, r) ==
    CASE c = OffShape -> OffShape
      [] r.kind \in {"OutboundResponse", "OtherEvent", "UnhandleableMessageReceived"} -> c
      [] r.kind = "StreamMetadataChanged" ->
            IF c = <<>> THEN <<"M">> ELSE OffShape
      [] r.kind = "VideoDataReceived" /\ r.data.parse_ok
            /\ r.data.packet_type = "SequenceHeader" /\ r.data.sets = "valid" ->
            IF c = <<"M">> THEN <<"M", "S">> ELSE OffShape
      [] r.kind = "VideoDataReceived" /\ r.data.parse_ok
            /\ r.data.packet_type = "NALU" ->
            IF Len(c) >= 2
            THEN Append(c, IF r.data.frame_type = "Key" THEN "K" ELSE "I")
            ELSE OffShape
      [] OTHER -> OffShape

RECURSIVE CaptureOver(_, _)
CaptureOver(c, b) ==
    IF b = <<>> THEN c ELSE CaptureOver(CaptureStep(c, Head(b)), Tail(b))

\* The batches handle_input may still return, the engine's outbound packets
\* numbered in the order it emits them.
Numbered(b) ==
    [i \in 1..Len(b) |->
        IF b[i].kind = "OutboundResponse"
        THEN OutboundResponse(offered
                 + Cardinality({j \in 1..i : b[j].kind = "OutboundResponse"}))
        ELSE b[i]]

Batches(R, max) ==
    { <<InputError>> } \cup
    UNION { [1..n -> R] : n \in 0..(IF max - consumed < MaxBatch
                                    THEN max - consumed ELSE MaxBatch) }

Fail(e) ==
    /\ pc' = "error"
    /\ err' = e
    /\ pending' = <<>>

\* read_filter.read() followed by handle_input: the next batch of results
\* becomes the one being iterated, or the call fails.
ReadInput(b, at) ==
    IF b = <<InputError>>
    THEN Fail("Io") /\ UNCHANGED <<consumed, offered, raised, capture>>
    ELSE /\ pending' = Numbered(b)
         /\ raised' = raised \o MediaPositions(b, consumed)
         /\ capture' = CaptureOver(capture, b)
         /\ consumed' = consumed + Len(b)
         /\ offered' = offered
               + Cardinality({j \in 1..Len(b) : b[j].kind = "OutboundResponse"})
         /\ pc' = at
         /\ err' = err

\* self.rtmp_tx.send(pkt).await?
SendEnabled == writer = "running" => Len(rtmp_rx) < ChannelCapacity

\* rtmp_ingest up to the insertion into the registry.
IngestStart ==
    /\ ipc = "accepted"
    /\ \E authenticated \in BOOLEAN :
        IF authenticated
        THEN /\ ipc' = "running"
             /\ streams' = streams \cup {App}
             /\ writer' = "running"
             /\ pc' = "created"
             /\ log' = log
        ELSE /\ ipc' = "done"
             /\ log' = Append(log, "Error while ingesting RTMP")
             /\ UNCHANGED <<streams, writer, pc>>
    /\ UNCHANGED <<pending, consumed, expecting, started, err, assembler,
                   rtmp_rx, written, offered, history>>
    /\ UNCHANGED <<fanout, registry>>

\* start(): read_filter.start() and the entry into wait_for_metadata.
Start ==
    /\ ipc = "running"
    /\ pc = "created"
    /\ \E ok \in BOOLEAN :
        IF ok
        THEN pc' = "wait_for_metadata" /\ UNCHANGED <<err, pending>>
        ELSE Fail("Io")
    /\ UNCHANGED <<ingest, consumed, expecting, started, assembler, channel,
                   offered, history>>
    /\ UNCHANGED <<fanout, registry>>

\* wait_for_metadata: one turn of the outer loop.
WaitForMetadataRead(R, max) ==
    /\ pc = "wait_for_metadata"
    /\ pending = <<>>
    /\ \E b \in Batches(R, max) : ReadInput(b, "wait_for_metadata")
    /\ UNCHANGED <<ingest, expecting, started, assembler, channel, returned,
                   passed>>
    /\ UNCHANGED <<fanout, registry>>

\* wait_for_metadata: one result of the batch.
WaitForMetadataStep ==
    /\ pc = "wait_for_metadata"
    /\ pending # <<>>
    /\ LET res == Head(pending)
       IN  CASE res.kind = "OutboundResponse" ->
                 /\ SendEnabled
                 /\ IF writer = "running"
                    THEN /\ rtmp_rx' = Append(rtmp_rx, res.pkt)
                         /\ pending' = Tail(pending)
                         /\ UNCHANGED <<pc, err>>
                    ELSE Fail("SendError") /\ UNCHANGED rtmp_rx
                 /\ UNCHANGED expecting
             [] res.kind = "StreamMetadataChanged" ->
                 /\ expecting' = Some([video |-> res.video_width,
                                       audio |-> res.audio_sample_rate])
                 /\ pc' = "start"
                 /\ pending' = <<>>
                 /\ UNCHANGED <<rtmp_rx, err>>
             [] OTHER ->
                 /\ pending' = Tail(pending)
                 /\ UNCHANGED <<pc, err, rtmp_rx, expecting>>
    /\ UNCHANGED <<ingest, consumed, started, assembler, written, writer,
                   offered, history>>
    /\ UNCHANGED <<fanout, registry>>

\* How the driver goes on after add_*_frame returned o.
Continue(o) ==
    CASE o.result.status = "Ok" ->
          /\ pending' = Tail(pending)
          /\ UNCHANGED <<pc, err>>
      [] o.result.status = "Err" -> Fail(o.result.error)
      [] OTHER ->
          /\ pc' = "panic"
          /\ err' = o.result.error
          /\ pending' = <<>>

\* frames.push_back(frame); emitted records every frame ever pushed, with
\* its substream and the peer timestamp of its payload.
Pushed(o, substream, timestamp) ==
    /\ frames' = frames \o o.push
    /\ emitted' = emitted
          \o [i \in 1..Len(o.push) |->
                [substream |-> substream, timestamp |-> timestamp,
                 frame |-> o.push[i]]]

\* The loop test of start() with && written for ||.
StartMustFetchBoth ==
    /\ Unwrap(expecting).video /\ video_stream = None
    /\ Unwrap(expecting).audio /\ audio_stream = None

\* The loop test of start(): an announced substream has no descriptor yet.
StartMustFetch ==
    \/ Unwrap(expecting).video /\ video_stream = None
    \/ Unwrap(expecting).audio /\ audio_stream = None

\* start() after wait_for_metadata: the loop test, then either a fetch or
\* the return of the video descriptor.
StartLoop(R, max) ==
    /\ pc = "start"
    /\ pending = <<>>
    /\ IF StartMustFetch
       THEN /\ \E b \in Batches(R, max) : ReadInput(b, "start")
            /\ UNCHANGED started
       ELSE /\ IF video_stream = None
               THEN pc' = "panic" /\ err' = "unwrap" /\ started' = started
               ELSE pc' = "streaming" /\ err' = err /\ started' = video_stream
            /\ UNCHANGED <<pending, consumed, offered, raised, capture>>
    /\ UNCHANGED <<ingest, expecting, assembler, channel, returned, passed>>
    /\ UNCHANGED <<fanout, registry>>

\* process_results: one result of the batch fetch() obtained.
ProcessResult ==
    /\ pc \in {"start", "read"}
    /\ pending # <<>>
    /\ LET res == Head(pending)
       IN  CASE res.kind = "OutboundResponse" ->
                 /\ SendEnabled
                 /\ IF writer = "running"
                    THEN /\ rtmp_rx' = Append(rtmp_rx, res.pkt)
                         /\ pending' = Tail(pending)
                         /\ UNCHANGED <<pc, err>>
                    ELSE Fail("SendError") /\ UNCHANGED rtmp_rx
                 /\ UNCHANGED <<assembler, passed>>
             [] res.kind = "VideoDataReceived" ->
                 LET o == add_video_frame(res.data, res.timestamp)
                 IN  /\ Continue(o)
                     /\ passed' = Append(passed, Now)
                     /\ video_stream' = o.stream
                     /\ video_time' = o.time
                     /\ prev_video_time' = o.prev
                     /\ Pushed(o, "video", res.timestamp)
                     /\ UNCHANGED <<audio_stream, audio_time, prev_audio_time,
                                    rtmp_rx>>
             [] res.kind = "AudioDataReceived" ->
                 LET o == add_audio_frame(res.data, res.timestamp)
                 IN  /\ Continue(o)
                     /\ passed' = Append(passed, Now)
                     /\ audio_stream' = o.stream
                     /\ audio_time' = o.time
                     /\ prev_audio_time' = o.prev
                     /\ Pushed(o, "audio", res.timestamp)
                     /\ UNCHANGED <<video_stream, video_time, prev_video_time,
                                    rtmp_rx>>
             [] OTHER ->
                 /\ pending' = Tail(pending)
                 /\ UNCHANGED <<pc, err, assembler, rtmp_rx, passed>>
    /\ UNCHANGED <<ingest, consumed, expecting, started, written, writer,
                   offered, returned, raised, capture>>
    /\ UNCHANGED <<fanout, registry>>

\* self.frames.pop_back()
PopBack(q) == [frame |-> q[Len(q)], rest |-> SubSeq(q, 1, Len(q) - 1)]

\* self.frames.pop_front()
PopFront(q) == [frame |-> Head(q), rest |-> Tail(q)]

\* read(): try_get_frame pops the backlog or, when it is empty, fetches.
Read(R, max) ==
    /\ pc = "streaming"
    /\ IF frames # <<>>
       THEN /\ frames' = PopFront(frames).rest
            /\ returned' = Append(returned, PopFront(frames).frame)
            /\ UNCHANGED <<pc, err, pending, consumed, offered, raised, capture>>
       ELSE /\ \E b \in Batches(R, max) : ReadInput(b, "read")
            /\ UNCHANGED <<frames, returned>>
    /\ UNCHANGED <<ingest, expecting, started, video_stream, video_time,
                   prev_video_time, audio_stream, audio_time, prev_audio_time,
                   emitted, channel, passed>>
    /\ UNCHANGED <<fanout, registry>>

\* read(): after the fetch, try_get_frame pops; get_frame loops on None.
ReadAfterFetch(R, max) ==
    /\ pc = "read"
    /\ pending = <<>>
    /\ IF frames # <<>>
       THEN /\ frames' = PopFront(frames).rest
            /\ returned' = Append(returned, PopFront(frames).frame)
            /\ pc' = "streaming"
            /\ UNCHANGED <<err, pending, consumed, offered, raised, capture>>
       ELSE /\ \E b \in Batches(R, max) : ReadInput(b, "read")
            /\ UNCHANGED <<frames, returned>>
    /\ UNCHANGED <<ingest, expecting, started, video_stream, video_time,
                   prev_video_time, audio_stream, audio_time, prev_audio_time,
                   emitted, channel, passed>>
    /\ UNCHANGED <<fanout, registry>>

\* rtmp_write_task: one packet taken from the channel and written; a failed
\* write ends the task and drops the receiver.
RtmpWriteTask ==
    /\ writer = "running"
    /\ rtmp_rx # <<>>
    /\ \E ok \in BOOLEAN :
        IF ok
        THEN /\ written' = Append(written, Head(rtmp_rx))
             /\ rtmp_rx' = Tail(rtmp_rx)
             /\ writer' = writer
        ELSE /\ writer' = "failed"
             /\ rtmp_rx' = <<>>
             /\ written' = written
    /\ UNCHANGED <<ingest, pc, pending, consumed, expecting, started, err,
                   assembler, offered, history>>
    /\ UNCHANGED <<fanout, registry>>

\* rtmp_ingest: graph.run() returned Err, which is logged.
IngestLogError ==
    /\ ipc = "running"
    /\ pc = "error"
    /\ log' = Append(log, "Error while reading from RTMP stream")
    /\ ipc' = "logged"
    /\ UNCHANGED <<streams, pc, pending, consumed, expecting, started, err,
                   assembler, channel, offered, history>>
    /\ UNCHANGED <<fanout, registry>>

\* The writer spawned without stop_future: dropping the filter leaves it be.
WriterDetached(w) == w

\* Dropping the filter drops its StopSource: the stop_future wrapped around
\* the writer task resolves and the task is never polled again.
DropStopSource(w) == IF w = "running" THEN "stopped" ELSE w

\* rtmp_ingest: the entry is removed and the task returns, which drops the
\* filter and with it the stop source of the writer.
IngestRemove ==
    /\ ipc = "logged"
    /\ streams' = streams \ {App}
    /\ ipc' = "done"
    /\ writer' = DropStopSource(writer)
    /\ UNCHANGED <<log, pc, pending, consumed, expecting, started, err,
                   assembler, rtmp_rx, written, offered, history>>
    /\ UNCHANGED <<fanout, registry>>

\* A panic unwinds the ingest task: the filter is dropped, nothing else of
\* rtmp_ingest runs.
IngestPanic ==
    /\ ipc = "running"
    /\ pc = "panic"
    /\ ipc' = "panicked"
    /\ writer' = DropStopSource(writer)
    /\ UNCHANGED <<streams, log, pc, pending, consumed, expecting, started,
                   err, assembler, rtmp_rx, written, offered, history>>
    /\ UNCHANGED <<fanout, registry>>

NextOver(R, max) ==
    \/ IngestStart
    \/ Start
    \/ WaitForMetadataRead(R, max)
    \/ WaitForMetadataStep
    \/ StartLoop(R, max)
    \/ ProcessResult
    \/ Read(R, max)
    \/ ReadAfterFetch(R, max)
    \/ RtmpWriteTask
    \/ IngestLogError
    \/ IngestRemove
    \/ IngestPanic

Next == NextOver(AllResults, MaxResults)

Spec == Init /\ [][Next]_vars

NextClock == NextOver(ClockResults, MaxClockResults)

SpecClock == Init /\ [][NextClock]_vars

(* ----------------------------- the frame queue ------------------------- *)

\* A backlog that grows without dropping.
EnqueueUnbounded(backlog, f) == Append(backlog, f)

\* A frame joins a backlog; a full backlog loses its oldest frame for it.
Enqueue(backlog, f) ==
    IF Len(backlog) >= QueueBound
    THEN Append(Tail(backlog), f)
    ELSE Append(backlog, f)

\* What a push does to one consumer: nothing while it is detached or still
\* waits for a key frame and f is none; otherwise f joins its backlog, and
\* a frame dropped for it is counted.
Offer(r, f) ==
    IF ~r.attached \/ (r.waiting /\ f.dependency # "None")
    THEN r
    ELSE [r EXCEPT !.waiting = FALSE,
                   !.start = IF r.waiting THEN f.n ELSE @,
                   !.backlog = Enqueue(@, f),
                   !.lagged = IF Len(r.backlog) >= QueueBound
                              THEN @ + 1 ELSE @]

\* The producer pushes a frame; it waits for no consumer.
QueuePush ==
    /\ Len(queue_frames) < MaxFrames
    /\ LET f == QueuedFrame(Len(queue_frames) + 1,
                            DependencyOf(Len(queue_frames) + 1))
       IN  /\ queue_frames' = Append(queue_frames, f)
           /\ receivers' = [c \in Consumers |-> Offer(receivers[c], f)]
    /\ UNCHANGED <<session, registry>>

\* The key frames the consumers other than c still hold.
HeldKeyframes(c) ==
    UNION {{receivers[d].backlog[i].n :
               i \in {j \in 1..Len(receivers[d].backlog) :
                         receivers[d].backlog[j].dependency = "None"}} :
           d \in Consumers \ {c}}

Max(S) == CHOOSE x \in S : \A y \in S : y <= x

\* The cursor get_receiver() returns: at the most recent key frame another
\* consumer holds, or waiting for the next key frame.
Joined(c) ==
    IF HeldKeyframes(c) = {}
    THEN [Detached EXCEPT !.attached = TRUE, !.waiting = TRUE]
    ELSE [Detached EXCEPT
            !.attached = TRUE,
            !.start = Max(HeldKeyframes(c)),
            !.backlog = SubSeq(queue_frames, Max(HeldKeyframes(c)),
                               Len(queue_frames))]

GetReceiver(c) ==
    /\ ~receivers[c].attached
    /\ receivers' = [receivers EXCEPT ![c] = Joined(c)]
    /\ UNCHANGED <<queue_frames, session, registry>>

\* recv() when there is something to yield: LaggedBy(k) if frames were
\* dropped since the last read, else the oldest frame of the backlog.
Recv(c) ==
    /\ receivers[c].attached
    /\ ~(receivers[c].lagged = 0 /\ receivers[c].backlog = <<>>)
    /\ LET r == receivers[c]
       IN  receivers' = [receivers EXCEPT ![c] =
              IF r.lagged > 0
              THEN [r EXCEPT !.delivered = Append(@, LaggedBy(r.lagged)),
                             !.lagged = 0]
              ELSE [r EXCEPT !.delivered = Append(@, Head(r.backlog)),
                             !.backlog = Tail(@)]]
    /\ UNCHANGED <<queue_frames, session, registry>>

NextQueue ==
    \/ QueuePush
    \/ \E c \in Consumers : GetReceiver(c)
    \/ \E c \in Consumers : Recv(c)

SpecQueue == Init /\ [][NextQueue]_vars

(* ---------------------------- the stream registry ---------------------- *)

\* listen_rtmp: a publisher is accepted under an app name and an ingest
\* task is spawned for it.
SessionAccept(s, app) ==
    /\ sessions[s].state = "idle"
    /\ sessions' = [sessions EXCEPT ![s] = [state |-> "accepted", app |-> app]]
    /\ UNCHANGED <<repo, viewed, session, fanout>>

\* rtmp_ingest up to the insertion: authenticate()? ends the task, else the
\* session's queue is inserted under its app name.
SessionInsert(s) ==
    /\ sessions[s].state = "accepted"
    /\ \E authenticated \in BOOLEAN :
          IF authenticated
          THEN /\ sessions' = [sessions EXCEPT ![s].state = "running"]
               /\ repo' = [repo EXCEPT ![sessions[s].app] = Some(s)]
          ELSE /\ sessions' = [sessions EXCEPT ![s].state = "done"]
               /\ repo' = repo
    /\ UNCHANGED <<viewed, session, fanout>>

\* graph.run() ends: with Ok or Err the task goes on, a panic unwinds it.
SessionRunEnds(s) ==
    /\ sessions[s].state = "running"
    /\ \E panicked \in BOOLEAN :
          sessions' = [sessions EXCEPT
                         ![s].state = IF panicked THEN "panicked"
                                      ELSE "stopping"]
    /\ UNCHANGED <<repo, viewed, session, fanout>>

\* rtmp_ingest: streams.remove(&app), and the task returns.
SessionRemove(s) ==
    /\ sessions[s].state = "stopping"
    /\ repo' = [repo EXCEPT ![sessions[s].app] = None]
    /\ sessions' = [sessions EXCEPT ![s].state = "done"]
    /\ UNCHANGED <<viewed, session, fanout>>

\* handle_websocket_video_response: streams.get(&stream).
ViewerLookup(stream) ==
    /\ viewed' = [stream |-> stream, queue |-> repo[stream]]
    /\ UNCHANGED <<sessions, repo, session, fanout>>

NextRegistry ==
    \/ \E s \in Sessions, app \in Apps : SessionAccept(s, app)
    \/ \E s \in Sessions : SessionInsert(s)
    \/ \E s \in Sessions : SessionRunEnds(s)
    \/ \E s \in Sessions : SessionRemove(s)
    \/ \E stream \in Apps : ViewerLookup(stream)

SpecRegistry == Init /\ [][NextRegistry]_vars

(* ------------------------------- properties ---------------------------- *)

Video(e) == SelectSeq(e, LAMBDA x : x.substream = "video")

Audio(e) == SelectSeq(e, LAMBDA x : x.substream = "audio")

PtsOf(e) == [i \in 1..Len(e) |-> e[i].frame.time.pts]

NonDecreasing(p) == \A i \in 1..(Len(p) - 1) : U64Leq(p[i], p[i + 1])

\* C1: per substream, the pts of the frames enqueued so far never go down,
\* and no step lowers video_time or audio_time.
C1_PtsMonotonic ==
    [][/\ U64Leq(video_time, video_time')
       /\ U64Leq(audio_time, audio_time')
       /\ NonDecreasing(PtsOf(Video(emitted')))
       /\ NonDecreasing(PtsOf(Audio(emitted')))]_vars

\* Three video frames were enqueued, the clock moved, and the last peer
\* timestamp was lower than an earlier one.
C1_Witness ==
    /\ Len(Video(emitted)) >= 3
    /\ prev_video_time = Some(U32Zero)
    /\ video_time # U64Zero

\* The driver is about to hand the next result of a fetched batch to
\* process_event / process_results.
Processing == pc \in {"start", "read"} /\ pending # <<>>

Handling(kind) == Processing /\ Head(pending).kind = kind

VideoPushed == Len(Video(emitted')) = Len(Video(emitted)) + 1

AudioPushed == Len(Audio(emitted')) = Len(Audio(emitted)) + 1

Last(q) == q[Len(q)]

TimestampsOf(e) == [i \in 1..Len(e) |-> e[i].timestamp]

\* C2: a payload whose peer timestamp is lower than the previous one of its
\* substream gets the previous frame's pts (delta clamped to 0) and prev
\* becomes that timestamp; peer timestamps 0,33,66,60 give pts 0,33,66,66.
C2_NegativeDeltaClamped ==
    [][/\ ( /\ Handling("VideoDataReceived") /\ VideoPushed
            /\ prev_video_time # None
            /\ U32Less(Head(pending).timestamp, Unwrap(prev_video_time)) )
          => ( /\ video_time' = video_time
               /\ Last(emitted').frame.time.pts = video_time
               /\ prev_video_time' = Some(Head(pending).timestamp) )
       /\ ( /\ Handling("AudioDataReceived") /\ AudioPushed
            /\ prev_audio_time # None
            /\ U32Less(Head(pending).timestamp, Unwrap(prev_audio_time)) )
          => ( /\ audio_time' = audio_time
               /\ Last(emitted').frame.time.pts = audio_time
               /\ prev_audio_time' = Some(Head(pending).timestamp) )
       /\ TimestampsOf(Video(emitted')) =
              <<U32Zero, U32(0, 33), U32(0, 66), U32(0, 60)>>
          => PtsOf(Video(emitted')) =
              <<U64Of(0), U64Of(33), U64Of(66), U64Of(66)>>]_vars

\* The scenario of C2 as the code runs it: the step back from 66 to 60 adds
\* 2^32 - 6 to the clock.
C2_ScenarioReached ==
    TimestampsOf(Video(emitted)) = <<U32Zero, U32(0, 33), U32(0, 66), U32(0, 60)>>

C2_ScenarioAsBuilt ==
    C2_ScenarioReached
    => PtsOf(Video(emitted)) = <<U64Of(0), U64Of(33), U64Of(66), <<0, 1, 0, 60>>>>

\* C3: the first video frame a session enqueues has dependency None.
C3_FirstVideoFrameIsKey ==
    Video(emitted) # <<>> => Video(emitted)[1].frame.dependency = "None"

\* C4: a NALU payload without SPS/PPS that arrives while there is no video
\* descriptor is dropped and nothing else happens: no descriptor, no frame,
\* the video clock untouched, the driver goes on with the next result.
C4_EarlyNaluDropped ==
    [][( /\ Handling("VideoDataReceived")
         /\ Head(pending).data.parse_ok
         /\ Head(pending).data.packet_type = "NALU"
         /\ Head(pending).data.sets = "missing"
         /\ video_stream = None
         /\ pending' # pending )
       => ( /\ video_stream' = None
            /\ emitted' = emitted /\ frames' = frames
            /\ video_time' = video_time
            /\ prev_video_time' = prev_video_time
            /\ pc' = pc /\ err' = err
            /\ pending' = Tail(pending) )]_vars

\* C5: a parsed audio tag whose sound format is not AAC ends the session
\* with UnsupportedCodec and enqueues no frame, whether or not the audio
\* descriptor exists.
C5_NonAacIsFatal ==
    [][( /\ Handling("AudioDataReceived")
         /\ Head(pending).data.parse_ok
         /\ Head(pending).data.sound_format # "AAC"
         /\ pending' # pending )
       => ( /\ pc' = "error" /\ err' = "UnsupportedCodec"
            /\ emitted' = emitted /\ frames' = frames )]_vars

\* C6: the error of a failed session is never in the log while the registry
\* still holds the session's entry.
C6_RemovedBeforeLogged ==
    ~ ( /\ \E i \in 1..Len(log) : log[i] = "Error while reading from RTMP stream"
        /\ App \in streams )

\* C7: an end-of-sequence video packet is dropped and nothing else happens,
\* with or without a video descriptor.
C7_EndOfSequenceDropped ==
    [][( /\ Handling("VideoDataReceived")
         /\ Head(pending).data.parse_ok
         /\ Head(pending).data.packet_type = "EndOfSequence"
         /\ pending' # pending )
       => ( /\ video_stream' = video_stream
            /\ emitted' = emitted /\ frames' = frames
            /\ video_time' = video_time
            /\ prev_video_time' = prev_video_time
            /\ pc' = pc /\ err' = err
            /\ pending' = Tail(pending) )]_vars

\* C8: a frame is pushed only while the descriptor of its substream exists,
\* and it carries that descriptor: id 0 for video, id 1 for audio.
C8_FrameHasOwnDescriptor ==
    [][/\ VideoPushed =>
            /\ video_stream # None
            /\ Last(emitted').frame.stream = Unwrap(video_stream)
            /\ Last(emitted').frame.stream.id = 0
       /\ AudioPushed =>
            /\ audio_stream # None
            /\ Last(emitted').frame.stream = Unwrap(audio_stream)
            /\ Last(emitted').frame.stream.id = 1]_vars

\* Frames of both substreams were pushed.
C8_Witness == Video(emitted) # <<>> /\ Audio(emitted) # <<>>

\* start() has returned Ok.
StartReturned == started # None

\* C9: start() returns Ok only after the metadata event, with a descriptor
\* for every substream the metadata announces, and returns the video
\* descriptor; with video announced and audio not, the loop test that finds
\* the video descriptor ends start() without another fetch.
C9_StartAwaitsDescriptors ==
    [][/\ StartReturned' =>
            /\ expecting' # None
            /\ Unwrap(expecting').video => video_stream' # None
            /\ Unwrap(expecting').audio => audio_stream' # None
            /\ started' = video_stream'
       /\ pc' = "streaming" => StartReturned'
       /\ ( /\ pc = "start" /\ pending = <<>> /\ pc' # "start"
            /\ Unwrap(expecting).video /\ ~Unwrap(expecting).audio
            /\ video_stream # None )
          => ( /\ pc' = "streaming" /\ consumed' = consumed
               /\ started' = video_stream )]_vars

\* start() returned for a video-only announcement while no audio descriptor
\* exists.
C9_Witness ==
    /\ StartReturned
    /\ expecting = Some([video |-> TRUE, audio |-> FALSE])
    /\ audio_stream = None
    /\ pc = "streaming"

\* The outbound packets among the results q, in order.
PacketsOf(q) ==
    LET o == SelectSeq(q, LAMBDA r : r.kind = "OutboundResponse")
    IN  [i \in 1..Len(o) |-> o[i].pkt]

\* C10: while the session runs, every packet the engine has returned is
\* written, in the channel, or still ahead in the batch being iterated, in
\* the order the engine emitted them.
C10_PacketsAllWrittenInOrder ==
    (writer = "running" /\ pc \in {"wait_for_metadata", "start", "read", "streaming"})
    => written \o rtmp_rx \o PacketsOf(pending) = [i \in 1..offered |-> i]

\* C11: the backlog never holds more frames than one handle_input call can
\* raise, whatever the driver is doing.
C11_BacklogBounded == Len(frames) <= MaxBatch

FramesOf(e) == [i \in 1..Len(e) |-> e[i].frame]

\* C12: the frames read() has returned, followed by the backlog, are the
\* frames pushed, in the order they were pushed, which is the order their
\* payloads were raised in: none reordered, repeated or skipped.
C12_ReadIsFifo ==
    /\ returned \o frames = FramesOf(emitted)
    /\ \A i, j \in 1..Len(returned) :
          i < j => returned[i].received < returned[j].received

\* read() has returned a video frame and, later, an audio frame, and a frame
\* is still in the backlog.
C12_Witness ==
    /\ \E i, j \in 1..Len(returned) :
          i < j /\ returned[i].stream.id = 0 /\ returned[j].stream.id = 1
    /\ frames # <<>>

DependenciesOf(e) == [i \in 1..Len(e) |-> e[i].frame.dependency]

\* The dependencies the NALUs of the capture call for.
CaptureDependencies ==
    [i \in 1..(Len(capture) - 2) |->
        IF capture[i + 2] = "K" THEN "None" ELSE "Backwards"]

\* All of a capture "metadata, sequence header, N NALUs" has been taken in.
CaptureDone ==
    /\ capture # OffShape
    /\ Len(capture) >= 2
    /\ pending = <<>>
    /\ pc # "error"

\* C13: once a capture of metadata, one sequence header and N NALUs has
\* been taken in, N video frames have been pushed, the i-th with dependency
\* None iff the i-th NALU is a key frame.
C13_CaptureYieldsItsFrames ==
    CaptureDone => DependenciesOf(Video(emitted)) = CaptureDependencies

\* The same, for captures none of whose media events the driver lost.
C13_UnlessEventsLost ==
    (CaptureDone /\ passed = raised)
    => DependenciesOf(Video(emitted)) = CaptureDependencies

\* C14: when the ingest task has ended, by return or by panic, the writer
\* task is not running; a writer that is no longer running writes nothing
\* and never runs again.
C14_WriterEndsWithSession ==
    [][/\ ipc' \in {"done", "panicked"} => writer' # "running"
       /\ writer \in {"stopped", "failed"} =>
            (writer' = writer /\ written' = written)]_vars

\* A session failed and ended with its writer cancelled, after the writer
\* had written a packet and while another was still in the channel.
C14_Witness ==
    /\ ipc = "done"
    /\ pc = "error"
    /\ writer = "stopped"
    /\ written # <<>>
    /\ rtmp_rx # <<>>

ZeroExtended(t) == <<0, 0, t[1], t[2]>>

PeerTimeAscends(e) ==
    \A i \in 1..(Len(e) - 1) : ~U32Less(e[i + 1].timestamp, e[i].timestamp)

\* The clock of a substream, given its frames e, clock and previous
\* timestamp: untouched until the first frame, which has pts 0; prev is the
\* last frame's peer timestamp; for ascending peer timestamps every pts is
\* the distance to the first frame's timestamp.
ClockFollowsFrames(e, time, prev) ==
    /\ e = <<>> => (time = U64Zero /\ prev = None)
    /\ e # <<>> =>
         /\ e[1].frame.time.pts = U64Zero
         /\ prev = Some(Last(e).timestamp)
    /\ PeerTimeAscends(e) =>
         \A i \in 1..Len(e) :
            U64AddU32(e[i].frame.time.pts, e[1].timestamp)
               = ZeroExtended(e[i].timestamp)

\* C17: the first frame of a substream has pts 0 and sets prev; the payload
\* that created the descriptor leaves the clock alone; for ascending peer
\* timestamps a frame's pts is its timestamp minus the first frame's.
C17_PtsCountsFromFirstFrame ==
    /\ ClockFollowsFrames(Video(emitted), video_time, prev_video_time)
    /\ ClockFollowsFrames(Audio(emitted), audio_time, prev_audio_time)

\* Video frames at ascending timestamps, the first not at 0, the last later
\* than the first, and an audio descriptor created by an audio payload.
C17_Witness ==
    /\ Len(Video(emitted)) >= 2
    /\ PeerTimeAscends(Video(emitted))
    /\ Video(emitted)[1].timestamp # U32Zero
    /\ Last(Video(emitted)).frame.time.pts # U64Zero
    /\ audio_stream # None

\* C18: a descriptor, once set, is never replaced or changed.
C18_DescriptorSetOnce ==
    [][/\ video_stream # None => video_stream' = video_stream
       /\ audio_stream # None => audio_stream' = audio_stream]_vars

\* With a video descriptor in place, a payload carrying other parameter
\* sets than the descriptor's was taken in and pushed as a frame.
C18_Witness ==
    /\ video_stream # None
    /\ \E i \in 1..Len(emitted) :
          /\ emitted[i].substream = "video"
          /\ emitted[i].frame.buffer \in {"avcC", "sps+pps+idr"}
          /\ emitted[i].frame.buffer # Unwrap(video_stream).codec.extra

\* C19: while the session runs, the media events handed to the assembler,
\* followed by those still ahead in the batch, are the media events the
\* engine raised, in order.
C19_NoMediaEventLost ==
    pc \in {"wait_for_metadata", "start", "read", "streaming"}
    => passed \o MediaPositions(pending, consumed - Len(pending)) = raised

\* The same from the metadata event on.
C19_AfterMetadata ==
    (pc \in {"start", "read", "streaming"} /\ raised # <<>> /\ passed # <<>>
       /\ passed[1] = raised[1])
    => passed \o MediaPositions(pending, consumed - Len(pending)) = raised

\* What a consumer has been yielded, then the signal it is owed, then what
\* it still holds.
Account(r) ==
    r.delivered
       \o (IF r.lagged > 0 THEN <<LaggedBy(r.lagged)>> ELSE <<>>)
       \o r.backlog

\* The items t stand for the frames pushed from the at-th on: each frame is
\* the one at its place, each LaggedBy(k) is in place of k frames, and
\* nothing is left over.
RECURSIVE Follows(_, _)
Follows(t, at) ==
    IF t = <<>> THEN at = Len(queue_frames) + 1
    ELSE IF Head(t).kind = "Frame"
         THEN /\ at <= Len(queue_frames)
              /\ Head(t) = queue_frames[at]
              /\ Follows(Tail(t), at + 1)
         ELSE /\ Head(t).n >= 1
              /\ Follows(Tail(t), at + Head(t).n)

\* The items of a consumer stand for every frame pushed since it began.
InOrderSinceStart(r) == Follows(Account(r), r.start)

\* C15: no backlog exceeds the bound; a consumer loses frames only while its
\* own backlog is full, and what it is yielded is every frame since it
\* began, in order, with LaggedBy(k) in place of the k oldest it lost; the
\* producer can always push.
C15_DropsAreLocal ==
    /\ \A c \in Consumers :
          /\ Len(receivers[c].backlog) <= QueueBound
          /\ receivers[c].lagged > 0 => Len(receivers[c].backlog) = QueueBound
          /\ (receivers[c].attached /\ ~receivers[c].waiting)
                => InOrderSinceStart(receivers[c])
    /\ Len(queue_frames) < MaxFrames => ENABLED QueuePush

\* Slow consumer isolation: of MaxFrames frames A has been yielded all, in
\* order, and B, which read nothing meanwhile, LaggedBy(MaxFrames -
\* QueueBound) and then the QueueBound newest (with bound 4 and 10 frames:
\* LaggedBy(6), then frames 7 to 10).
C15_Witness ==
    /\ Len(queue_frames) = MaxFrames
    /\ receivers["A"].delivered = queue_frames
    /\ receivers["B"].start = 1
    /\ receivers["B"].delivered
          = <<LaggedBy(MaxFrames - QueueBound)>>
               \o SubSeq(queue_frames, MaxFrames - QueueBound + 1, MaxFrames)

\* C16: the first frame a consumer is yielded has dependency None.
C16_FirstFrameIsKey ==
    \A c \in Consumers :
       \A i \in 1..Len(receivers[c].delivered) :
          (/\ receivers[c].delivered[i].kind = "Frame"
           /\ \A j \in 1..(i - 1) : receivers[c].delivered[j].kind # "Frame")
          => receivers[c].delivered[i].dependency = "None"

\* The same for a consumer that lost no frame before its first.
C16_UnlessLagged ==
    \A c \in Consumers :
       (/\ receivers[c].delivered # <<>>
        /\ receivers[c].delivered[1].kind = "Frame")
       => receivers[c].delivered[1].dependency = "None"

\* Late join: B attached after the fifth frame, while A held it, and its
\* first frame is the fifth, the second key frame.
C16_LateJoinReached ==
    /\ receivers["B"].start = 5
    /\ receivers["B"].delivered # <<>>
    /\ receivers["B"].delivered[1] = QueuedFrame(5, "None")

\* C20: while a session is between its insertion and its removal, the
\* registry maps its app name to its queue.
C20_EntryBelongsToItsSession ==
    \A s \in Sessions :
       sessions[s].state \in {"running", "stopping"}
       => repo[sessions[s].app] = Some(s)

\* The errors add_video_frame and add_audio_frame return.
AssemblerErrors ==
    {"FlvParse", "UnsupportedAvcPacketType", "UnsupportedCodec",
     "BadDecoderConfigurationRecord"}

\* C21: when the step that hands a media payload to the assembler ends in an
\* error, descriptors, clocks, previous timestamps and backlog are what they
\* were and no frame was pushed; the driver stops with that error and drops
\* the rest of the batch; and the assembler of a failed session never
\* changes again.
C21_ErrorLeavesAssembler ==
    [][/\ ( /\ Processing
            /\ IsMedia(Head(pending))
            /\ pc' = "error" )
          => ( /\ assembler' = assembler
               /\ err' \in AssemblerErrors
               /\ pending' = <<>>
               /\ returned' = returned )
       /\ pc = "error" => (assembler' = assembler /\ pc' = "error" /\ err' = err)
      ]_vars

\* A session that had a video descriptor, a running clock and a frame in the
\* backlog failed on a tag that does not parse: of the payloads handed to
\* the assembler, the one that made the descriptor and the failing one
\* pushed no frame.
C21_Witness ==
    /\ pc = "error"
    /\ err = "FlvParse"
    /\ video_stream # None
    /\ prev_video_time # None
    /\ frames # <<>>
    /\ Len(passed) > Len(emitted) + 1

====
